---- MODULE Spec2Model ----
(***************************************************************************)
(* Team-Hub: the authorization and team-membership core.                   *)
(*                                                                         *)
(* The handlers of controllers/authController.js (signup, verifyEmail,     *)
(* login, generateInvite, resendVerification, getTeamMembers,              *)
(* updateLastActive, cancelInvitation) and of the project controller with  *)
(* the membership handlers (getProjects, createProject, getProjectById,    *)
(* updateProject, deleteProject, addProjectMember, removeProjectMember,    *)
(* getAvailableTeamMembers) over one store: users, teams, projects,        *)
(* project_members and team_invitations.  The document-store records       *)
(* (uid, teamId, inviteCode, editors) and the relational rows (id,         *)
(* team_id, admin_id, invite_code, team_editors) of the same user and team *)
(* are one row here, keyed by the uid the login token carries.             *)
(*                                                                         *)
(* Random identifiers (crypto.randomBytes, uuid_generate_v4) are modelled  *)
(* by counters: the only property used of them is freshness.               *)
(* Time is counted in days, on an axis whose origin is the present        *)
(* instant: an expiry is stored as the number of days from now (0 once    *)
(* it has passed), and the passing of d days moves every stored expiry    *)
(* back by d.                                                              *)
(***************************************************************************)
EXTENDS Integers, FiniteSets, Sequences, TLC

\* ---------------------------------------------------------------- bounds
MaxUsers == 3
MaxProjects == 1
MaxTokens == 2
\* One signup per user, and one resend.
MaxVTokens == MaxUsers + 1
MaxInvitations == 1
\* Projects of the membership scenario.
MaxMemberProjects == 2
\* addProjectMember requests in flight.
MaxAdding == 2
\* generateInvite calls of the invite scenario.
MaxInviteCalls == 3

\* ------------------------------------------------------- program constants
\* `let teamId = null`, an absent verificationToken, an absent row.
Null == -1
\* A field the request body does not carry.
Undefined == "undefined"
\* The route parameter 'current' of getProjects and getTeamMembers.
Current == 0
\* new Date(): the present instant.
now == 0
\* tokenExpiry.setHours(tokenExpiry.getHours() + 24): one day.
VerificationTTL == 1
\* jwt.sign(..., { expiresIn: '7d' }).
TokenTTL == 7

Uids == 1..MaxUsers
Emails == 1..MaxUsers
Usernames == 1..MaxUsers
Passwords == {"pw", "other"}
\* An invite code nobody generated.
BadCode == 2 * MaxUsers + 1

VARIABLES
    users,        \* uid -> user row
    teams,        \* teamId -> [adminId, editors, inviteCode]
    projects,     \* project id -> [team_id, created_by, name, status]
    members,      \* project_members rows: [project_id, user_id, role]
    invitations,  \* invitation id -> [team_id, email, invited_by, status]
    jwts,         \* the tokens login has signed
    nextUid,      \* next fresh uid (crypto.randomBytes(16))
    nextVTok,     \* next fresh verification token (crypto.randomBytes(32))
    nextPid,      \* next fresh project id (uuid_generate_v4)
    nextInv,      \* next fresh invitation id (uuid_generate_v4)
    creating,     \* createProject requests between their two inserts
    signing,      \* signup requests between team.save() and newUser.save()
    inviting,     \* generateInvite requests that found no invite code
    adding,       \* addProjectMember requests between their check and insert
    resending,    \* resendVerification requests between their read and save
    consumed,     \* verification tokens verifyEmail has accepted (history)
    last          \* the last request, or store event, and its response

vars == <<users, teams, projects, members, invitations, jwts, nextUid,
          nextVTok, nextPid, nextInv, creating, signing, inviting, adding,
          resending, consumed, last>>

store == <<users, teams, projects, members, invitations>>

\* ----------------------------------------------------------------- helpers
\* The last request and its response, res.status(code).json({ message }):
\* actor is the user a verified token identifies (Null without one), arg the
\* request's parameter or the row it concerns.
Resp(op, status, why, actor, arg) ==
    [op |-> op, status |-> status, why |-> why, actor |-> actor, arg |-> arg]

\* bcrypt.hash(password, salt) and bcrypt.compare(password, hash).
bcryptHash(password) == <<"bcrypt", password>>
bcryptCompare(password, hash) == hash = bcryptHash(password)

\* User.findOne({ email }) / User.findOne({ username }): the matching uids.
findByEmail(email) == {u \in DOMAIN users : users[u].email = email}
findByUsername(name) == {u \in DOMAIN users : users[u].username = name}
\* Team.findOne({ inviteCode }): the matching team ids.
findTeamByCode(code) == {t \in DOMAIN teams : teams[t].inviteCode = code}

\* A request without an Authorization header, and one whose token was not
\* signed with JWT_SECRET.
NoAuth == [id |-> Null, email |-> Null, role |-> "none", teamId |-> Null,
           exp |-> Null, sig |-> "missing"]
Forged == [id |-> 1, email |-> 1, role |-> "admin", teamId |-> 1,
           exp |-> TokenTTL, sig |-> "bad"]
Auths == jwts \cup {NoAuth, Forged}

\* jwt.verify(token, JWT_SECRET): the signature and the exp claim.
jwtVerify(tok) == tok.sig = "good" /\ now < tok.exp

\* The two checks every token handler starts with; "" when they pass.
authCheck(tok) ==
    IF tok.sig = "missing" THEN "token_required"
    ELSE IF ~jwtVerify(tok) THEN "invalid_token"
    ELSE ""

Init ==
    /\ users = <<>>
    /\ teams = <<>>
    /\ projects = <<>>
    /\ members = {}
    /\ invitations = <<>>
    /\ jwts = {}
    /\ nextUid = 1
    /\ nextVTok = 1
    /\ nextPid = 1
    /\ nextInv = 1
    /\ creating = {}
    /\ signing = {}
    /\ inviting = {}
    /\ adding = {}
    /\ resending = {}
    /\ consumed = {}
    /\ last = Resp("none", 0, "", Null, Null)

\* ------------------------------------------------------------------ signup
\* The outcome of signup's checks, in the order of its early returns.
signupOutcome(email, username, code) ==
    IF findByEmail(email) # {} THEN "email_exists"
    ELSE IF findByUsername(username) # {} THEN "username_taken"
    ELSE IF code # Null /\ findTeamByCode(code) = {} THEN "invalid_invite"
    ELSE "ok"

\* The user row signup saves.
newUser(email, username, password, role, teamId) ==
    [email |-> email, username |-> username,
     password |-> bcryptHash(password), role |-> role, teamId |-> teamId,
     emailVerified |-> FALSE, verificationToken |-> nextVTok,
     verificationTokenExpiry |-> now + VerificationTTL]

\* team.editors.push(uid); team.save()  (lines 110-114)
pushEditor(ts, t, uid) ==
    [ts EXCEPT ![t].editors = @ \cup {uid}]

\* bcrypt.hash(password, salt) of line 57 throws on a password the body does
\* not carry; it runs after the two lookups of lines 38-48 and before the
\* invite code is resolved.
hashFails(out, password) ==
    out \in {"ok", "invalid_invite"} /\ password = Undefined

\* The required fields of userSchema (models/index.js lines 20-33), validated
\* by newUser.save(): a body without email or username fails there.
userValid(email, username) == email # Null /\ username # Null

signup(email, username, password, code, emailSent) ==
    /\ LET out == signupOutcome(email, username, code)
           uid == nextUid
       IN  IF hashFails(out, password)
           THEN /\ last' = Resp("signup", 500, "hash_failed", Null, Null)
                /\ UNCHANGED <<users, teams, nextUid, nextVTok>>
           ELSE IF out # "ok"
           THEN /\ last' = Resp("signup", 400, out, Null, Null)
                /\ UNCHANGED <<users, teams, nextUid, nextVTok>>
           ELSE IF ~userValid(email, username)
           THEN /\ teams' = IF code = Null
                            THEN uid :> [adminId |-> uid, editors |-> {},
                                         inviteCode |-> uid] @@ teams
                            ELSE teams
                /\ nextUid' = nextUid + 1
                /\ last' = Resp("signup", 500, "validation_failed", Null, uid)
                /\ UNCHANGED <<users, nextVTok>>
           ELSE /\ IF code # Null
                   THEN LET t == CHOOSE t \in findTeamByCode(code) : TRUE
                        IN  /\ users' = uid :> newUser(email, username,
                                           password, "editor", t) @@ users
                            /\ teams' = IF emailSent
                                        THEN pushEditor(teams, t, uid)
                                        ELSE teams
                   ELSE /\ teams' = uid :> [adminId |-> uid, editors |-> {},
                                            inviteCode |-> uid] @@ teams
                        /\ users' = uid :> newUser(email, username,
                                           password, "admin", uid) @@ users
                /\ nextUid' = nextUid + 1
                /\ nextVTok' = nextVTok + 1
                /\ last' = IF emailSent
                           THEN Resp("signup", 201, "ok", Null, uid)
                           ELSE Resp("signup", 500, "server_error", Null, uid)
    /\ UNCHANGED <<projects, members, invitations, jwts, nextPid, nextInv,
                   creating, signing, inviting, consumed, adding,
                   resending>>

\* ------------------------------------------------- signup, step by step
\* signup is a sequence of awaited store calls; other requests run between
\* them.  signupBegin is lines 11-88: the checks and, without an invite code,
\* team.save(); signupFinish is lines 90-127: newUser.save(), the email and
\* the roster.
signupBegin(email, username, password, code) ==
    /\ LET out == signupOutcome(email, username, code)
           uid == nextUid
       IN  IF hashFails(out, password)
           THEN /\ last' = Resp("signup", 500, "hash_failed", Null, Null)
                /\ UNCHANGED <<teams, nextUid, nextVTok, signing>>
           ELSE IF out # "ok"
           THEN /\ last' = Resp("signup", 400, out, Null, Null)
                /\ UNCHANGED <<teams, nextUid, nextVTok, signing>>
           ELSE /\ teams' = IF code = Null
                            THEN uid :> [adminId |-> uid, editors |-> {},
                                         inviteCode |-> uid] @@ teams
                            ELSE teams
                /\ signing' = signing \cup
                      {[uid |-> uid, email |-> email, username |-> username,
                        user |-> IF code = Null
                                 THEN newUser(email, username, password,
                                              "admin", uid)
                                 ELSE newUser(email, username, password,
                                        "editor",
                                        CHOOSE t \in findTeamByCode(code) : TRUE)]}
                /\ nextUid' = nextUid + 1
                /\ nextVTok' = nextVTok + 1
                /\ last' = Resp("signup", 0, "saving", Null, uid)
    /\ UNCHANGED <<users, projects, members, invitations, jwts, nextPid,
                   nextInv, creating, inviting, consumed, adding,
                   resending>>

\* newUser.save() is refused by the unique indexes of email and username
\* (models/index.js lines 19-28): the handler then answers 500 from its
\* catch block, and the team it saved stays.
userInsertOk(s) ==
    /\ userValid(s.email, s.username)
    /\ findByEmail(s.email) = {} /\ findByUsername(s.username) = {}

signupFinish(s, emailSent) ==
    /\ s \in signing
    /\ signing' = signing \ {s}
    /\ IF ~userInsertOk(s)
       THEN /\ UNCHANGED <<users, teams>>
            /\ last' = Resp("signup", 500, "server_error", Null, Null)
       ELSE /\ users' = s.uid :> s.user @@ users
            /\ teams' = IF /\ s.user.role = "editor"
                           /\ emailSent
                           /\ s.user.teamId \in DOMAIN teams
                        THEN pushEditor(teams, s.user.teamId, s.uid)
                        ELSE teams
            /\ last' = IF emailSent
                       THEN Resp("signup", 201, "ok", Null, s.uid)
                       ELSE Resp("signup", 500, "server_error", Null, s.uid)
    /\ UNCHANGED <<projects, members, invitations, jwts, nextUid, nextVTok,
                   nextPid, nextInv, creating, inviting, consumed, adding,
                   resending>>

\* ------------------------------------------------------------- verifyEmail
\* User.findOne({ verificationToken: token,
\*                verificationTokenExpiry: { $gt: new Date() } })
\* The lookup without its condition on verificationTokenExpiry.
findByVerificationTokenAnyExpiry(token) ==
    {u \in DOMAIN users : users[u].verificationToken = token}

findByVerificationToken(token) ==
    {u \in DOMAIN users : /\ users[u].verificationToken = token
                          /\ users[u].verificationTokenExpiry > now}

\* A variant of markVerified that leaves the token and its expiry in place.
markVerifiedKeepsToken(u) ==
    [users EXCEPT ![u].emailVerified = TRUE]

\* user.emailVerified = true; the token and its expiry are unset.
markVerified(u) ==
    [users EXCEPT ![u].emailVerified = TRUE,
                  ![u].verificationToken = Null,
                  ![u].verificationTokenExpiry = Null]

verifyEmail(token) ==
    /\ LET found == findByVerificationToken(token)
       IN  IF found = {}
           THEN /\ last' = Resp("verifyEmail", 400, "invalid_or_expired",
                                Null, token)
                /\ UNCHANGED <<users, consumed>>
           ELSE LET u == CHOOSE u \in found : TRUE
                IN  /\ users' = markVerified(u)
                    /\ consumed' = consumed \cup {token}
                    /\ last' = Resp("verifyEmail", 200, "ok", Null, token)
    /\ UNCHANGED <<teams, projects, members, invitations, jwts, nextUid,
                   nextVTok, nextPid, nextInv, creating, signing, inviting, adding,
                   resending>>

\* ------------------------------------------------------------------- login
\* The payload login signs, expiring in 7 days.
jwtSign(u) ==
    [id |-> u, email |-> users[u].email, role |-> users[u].role,
     teamId |-> users[u].teamId, exp |-> now + TokenTTL, sig |-> "good"]

\* The checks of login without the one of emailVerified (lines 321-324).
loginOutcomeUnverifiedAllowed(email, password) ==
    IF findByEmail(email) = {} THEN "invalid_credentials"
    ELSE LET u == CHOOSE u \in findByEmail(email) : TRUE
         IN  IF ~bcryptCompare(password, users[u].password)
             THEN "invalid_credentials"
             ELSE "ok"

loginOutcome(email, password) ==
    IF findByEmail(email) = {} THEN "invalid_credentials"
    ELSE LET u == CHOOSE u \in findByEmail(email) : TRUE
         IN  IF ~users[u].emailVerified THEN "email_not_verified"
             ELSE IF ~bcryptCompare(password, users[u].password)
                  THEN "invalid_credentials"
             ELSE "ok"

login(email, password) ==
    /\ LET out == loginOutcome(email, password)
       IN  IF out = "ok"
           THEN LET u == CHOOSE u \in findByEmail(email) : TRUE
                IN  /\ jwts' = jwts \cup {jwtSign(u)}
                    /\ last' = Resp("login", 200, "ok", Null, u)
           ELSE /\ jwts' = jwts
                /\ last' = Resp("login",
                                IF out = "email_not_verified" THEN 401 ELSE 400,
                                out, Null, Null)
    /\ UNCHANGED <<users, teams, projects, members, invitations, nextUid,
                   nextVTok, nextPid, nextInv, creating, signing, inviting,
                   consumed, adding,
                   resending>>

\* ---------------------------------------------------------- generateInvite
generateInviteOutcome(userId) ==
    IF userId \notin DOMAIN users \/ users[userId].role # "admin"
    THEN "only_admins"
    ELSE IF users[userId].teamId \notin DOMAIN teams THEN "team_not_found"
    ELSE "ok"

\* team.inviteCode = crypto.randomBytes(8).toString('hex'), when it is unset.
freshInviteCode(t) == MaxUsers + t

\* generateInvite without its test of line 387: a code is made on every call.
generateInviteAlwaysFresh(userId) ==
    /\ LET out == generateInviteOutcome(userId)
       IN  IF out = "ok"
           THEN LET t == users[userId].teamId
                IN  /\ teams' = [teams EXCEPT
                                   ![t].inviteCode = freshInviteCode(t)]
                    /\ last' = Resp("generateInvite", 200, "ok", Null, userId)
           ELSE /\ teams' = teams
                /\ last' = Resp("generateInvite",
                                IF out = "only_admins" THEN 403 ELSE 404,
                                out, Null, userId)
    /\ UNCHANGED <<users, projects, members, invitations, jwts, nextUid,
                   nextVTok, nextPid, nextInv, creating, signing, inviting,
                   consumed, adding,
                   resending>>

generateInvite(userId) ==
    /\ LET out == generateInviteOutcome(userId)
       IN  IF out = "ok"
           THEN LET t == users[userId].teamId
                IN  /\ teams' = IF teams[t].inviteCode = Null
                                THEN [teams EXCEPT
                                        ![t].inviteCode = freshInviteCode(t)]
                                ELSE teams
                    /\ last' = Resp("generateInvite", 200, "ok", Null, userId)
           ELSE /\ teams' = teams
                /\ last' = Resp("generateInvite",
                                IF out = "only_admins" THEN 403 ELSE 404,
                                out, Null, userId)
    /\ UNCHANGED <<users, projects, members, invitations, jwts, nextUid,
                   nextVTok, nextPid, nextInv, creating, signing, inviting,
                   consumed, adding,
                   resending>>

\* ----------------------------------------- generateInvite, step by step
\* generateInvite reads the team (line 381) and, when it finds no code, writes
\* one with a later await team.save() (lines 387-390); other requests run in
\* between.  `inviting` keeps each request: the team it read, the code of its
\* link, and whether it has answered.
randomCode == MaxUsers + 1 + Cardinality(inviting)

generateInviteRead(userId) ==
    /\ LET out == generateInviteOutcome(userId)
       IN  IF out # "ok"
           THEN /\ inviting' = inviting
                /\ last' = Resp("generateInvite",
                                IF out = "only_admins" THEN 403 ELSE 404,
                                out, Null, userId)
           ELSE LET t == users[userId].teamId
                IN  IF teams[t].inviteCode # Null
                    THEN /\ inviting' = inviting \cup
                              {[userId |-> userId, team |-> t,
                                code |-> teams[t].inviteCode,
                                answered |-> TRUE]}
                         /\ last' = Resp("generateInvite", 200, "ok", Null,
                                         userId)
                    ELSE /\ inviting' = inviting \cup
                              {[userId |-> userId, team |-> t,
                                code |-> randomCode, answered |-> FALSE]}
                         /\ last' = Resp("generateInvite", 0, "saving", Null,
                                         userId)
    /\ UNCHANGED <<users, teams, projects, members, invitations, jwts,
                   nextUid, nextVTok, nextPid, nextInv, creating, signing,
                   consumed, adding,
                   resending>>

\* await team.save() of the document read before, then res.json: the save
\* sets inviteCode whatever the stored value has become.
generateInviteSave(g) ==
    /\ g \in inviting
    /\ ~g.answered
    /\ g.team \in DOMAIN teams
    /\ teams' = [teams EXCEPT ![g.team].inviteCode = g.code]
    /\ inviting' = (inviting \ {g}) \cup {[g EXCEPT !.answered = TRUE]}
    /\ last' = Resp("generateInvite", 200, "ok", Null, g.userId)
    /\ UNCHANGED <<users, projects, members, invitations, jwts, nextUid,
                   nextVTok, nextPid, nextInv, creating, signing, consumed, adding,
                   resending>>

\* A signup without invite code that creates its team without a code, the
\* code being made at the first generateInvite.  The unique index of
\* inviteCode (models/index.js line 83) admits one team without a code.
signupLazy(email, username, password) ==
    /\ LET out == signupOutcome(email, username, Null)
           uid == nextUid
       IN  IF out # "ok"
           THEN /\ last' = Resp("signup", 400, out, Null, Null)
                /\ UNCHANGED <<users, teams, nextUid, nextVTok>>
           ELSE IF findTeamByCode(Null) # {}
           THEN /\ last' = Resp("signup", 500, "server_error", Null, Null)
                /\ UNCHANGED <<users, teams, nextUid, nextVTok>>
           ELSE /\ teams' = uid :> [adminId |-> uid, editors |-> {},
                                    inviteCode |-> Null] @@ teams
                /\ users' = uid :> newUser(email, username, password,
                                           "admin", uid) @@ users
                /\ nextUid' = nextUid + 1
                /\ nextVTok' = nextVTok + 1
                /\ last' = Resp("signup", 201, "ok", Null, uid)
    /\ UNCHANGED <<projects, members, invitations, jwts, nextPid, nextInv,
                   creating, signing, inviting, consumed, adding,
                   resending>>

\* ------------------------------------------------------ resendVerification
resendVerificationOutcome(email) ==
    IF findByEmail(email) = {} THEN "user_not_found"
    ELSE LET u == CHOOSE u \in findByEmail(email) : TRUE
         IN  IF users[u].emailVerified THEN "already_verified" ELSE "ok"

resendVerification(email, emailSent) ==
    /\ LET out == resendVerificationOutcome(email)
       IN  IF out = "ok"
           THEN LET u == CHOOSE u \in findByEmail(email) : TRUE
                IN  /\ users' = [users EXCEPT
                          ![u].verificationToken = nextVTok,
                          ![u].verificationTokenExpiry = now + VerificationTTL]
                    /\ nextVTok' = nextVTok + 1
                    /\ last' = IF emailSent
                               THEN Resp("resendVerification", 200, "ok",
                                         Null, u)
                               ELSE Resp("resendVerification", 500,
                                         "server_error", Null, u)
           ELSE /\ UNCHANGED <<users, nextVTok>>
                /\ last' = Resp("resendVerification",
                                IF out = "user_not_found" THEN 404 ELSE 400,
                                out, Null, Null)
    /\ UNCHANGED <<teams, projects, members, invitations, jwts, nextUid,
                   nextPid, nextInv, creating, signing, inviting, consumed, adding,
                   resending>>

\* ------------------------------------- resendVerification, step by step
\* The handler reads the user (line 407), and after its checks writes the new
\* token with a later await user.save() (lines 420-422) on the document it
\* read; other requests run in between.  The save sends the two fields it
\* changed.
resendVerificationRead(email) ==
    /\ LET out == resendVerificationOutcome(email)
       IN  IF out = "ok"
           THEN /\ resending' = resending \cup
                      {[uid |-> CHOOSE u \in findByEmail(email) : TRUE]}
                /\ last' = Resp("resendVerification", 0, "read", Null,
                                CHOOSE u \in findByEmail(email) : TRUE)
           ELSE /\ resending' = resending
                /\ last' = Resp("resendVerification",
                                IF out = "user_not_found" THEN 404 ELSE 400,
                                out, Null, Null)
    /\ UNCHANGED <<users, teams, projects, members, invitations, jwts,
                   nextUid, nextVTok, nextPid, nextInv, creating, signing,
                   inviting, adding, consumed>>

resendVerificationSave(r, emailSent) ==
    /\ r \in resending
    /\ r.uid \in DOMAIN users
    /\ resending' = resending \ {r}
    /\ users' = [users EXCEPT
                   ![r.uid].verificationToken = nextVTok,
                   ![r.uid].verificationTokenExpiry = now + VerificationTTL]
    /\ nextVTok' = nextVTok + 1
    /\ last' = IF emailSent
               THEN Resp("resendVerification", 200, "ok", Null, r.uid)
               ELSE Resp("resendVerification", 500, "server_error", Null,
                         r.uid)
    /\ UNCHANGED <<teams, projects, members, invitations, jwts, nextUid,
                   nextPid, nextInv, creating, signing, inviting, adding,
                   consumed>>

\* ================================================================ projects
\* The status each early return of the project and team handlers sends.
statusOf(why) ==
    CASE why = "ok" -> 200
      [] why = "created" -> 201
      [] why \in {"token_required", "invalid_token"} -> 401
      [] why \in {"not_your_team", "insufficient_role", "only_admins",
                  "not_your_invitation", "not_yourself"} -> 403
      [] why \in {"project_not_found", "user_not_found", "not_a_member",
                  "user_to_add_not_found", "invitation_not_found"} -> 404
      [] why \in {"name_required", "no_fields", "userid_required",
                  "cross_team", "already_member",
                  "cannot_remove_creator"} -> 400
      [] OTHER -> 500

\* !s of a string field: absent or empty.
falsy(s) == s \in {Undefined, ""}

\* decodedToken.user.id of a verified token, for the response record.
actorOf(tok) == IF authCheck(tok) = "" THEN tok.id ELSE Null

\* supabase.from('project_members')...eq('project_id').eq('user_id')
memberRows(pid, uid) ==
    {m \in members : m.project_id = pid /\ m.user_id = uid}

\* ----------------------------------------------------------- createProject
\* The insert into projects fails on its NOT NULL and foreign key columns.
projectInsertOk(teamId, userId) ==
    teamId \in DOMAIN teams /\ userId \in DOMAIN users

createProjectOutcome(tok, name) ==
    IF falsy(name) THEN "name_required"
    ELSE IF authCheck(tok) # "" THEN authCheck(tok)
    ELSE IF ~projectInsertOk(tok.teamId, tok.id) THEN "error_creating"
    ELSE "inserted"

\* The team the new project is filed under: decodedToken.user.teamId.
createProjectTeam(tok) == tok.teamId

\* Lines 84-126: validation, authentication and the insert into projects.
createProject(tok, name) ==
    /\ LET out == createProjectOutcome(tok, name)
       IN  IF out = "inserted"
           THEN /\ projects' = nextPid :>
                      [team_id |-> createProjectTeam(tok),
                       created_by |-> tok.id, name |-> name,
                       description |-> "", status |-> "active"] @@ projects
                /\ nextPid' = nextPid + 1
                /\ creating' = creating \cup {[pid |-> nextPid, uid |-> tok.id]}
                /\ last' = Resp("createProject", 0, "inserted", tok.id,
                                nextPid)
           ELSE /\ UNCHANGED <<projects, nextPid, creating>>
                /\ last' = Resp("createProject", statusOf(out), out,
                                actorOf(tok), Null)
    /\ UNCHANGED <<users, teams, members, invitations, jwts, nextUid, nextVTok,
                   nextInv, signing, inviting, consumed, adding,
                   resending>>

\* The insert into project_members without UNIQUE(project_id, user_id).
memberInsertOkNoUnique(pid, uid) ==
    /\ pid \in DOMAIN projects
    /\ uid \in DOMAIN users

\* The insert into project_members fails on its foreign keys and on
\* UNIQUE(project_id, user_id).
memberInsertOk(pid, uid) ==
    /\ pid \in DOMAIN projects
    /\ uid \in DOMAIN users
    /\ memberRows(pid, uid) = {}

\* Lines 128-156: the creator's owner row, whose result is not looked at,
\* and the response.
createProjectOwner(c) ==
    /\ c \in creating
    /\ creating' = creating \ {c}
    /\ members' = IF memberInsertOk(c.pid, c.uid)
                  THEN members \cup {[project_id |-> c.pid, user_id |-> c.uid,
                                      role |-> "owner"]}
                  ELSE members
    /\ last' = Resp("createProject", 201, "created", c.uid, c.pid)
    /\ UNCHANGED <<users, teams, projects, invitations, jwts, nextUid,
                   nextVTok, nextPid, nextInv, signing, inviting, consumed, adding,
                   resending>>

\* ---------------------------------------------- the permission check chain
\* A variant of updateProjectOutcome without the team check of lines 315-318.
updateProjectOutcomeNoTeamCheck(tok, pid, body) ==
    IF falsy(body.name) /\ falsy(body.description) /\ falsy(body.status)
    THEN "no_fields"
    ELSE IF authCheck(tok) # "" THEN authCheck(tok)
    ELSE IF pid \notin DOMAIN projects THEN "project_not_found"
    ELSE IF tok.id \notin DOMAIN users THEN "user_not_found"
    ELSE IF users[tok.id].role # "admin" /\ projects[pid].created_by # tok.id
         THEN "insufficient_role"
    ELSE "ok"

\* updateProject lines 293-323.
updateProjectOutcome(tok, pid, body) ==
    IF falsy(body.name) /\ falsy(body.description) /\ falsy(body.status)
    THEN "no_fields"
    ELSE IF authCheck(tok) # "" THEN authCheck(tok)
    ELSE IF pid \notin DOMAIN projects THEN "project_not_found"
    ELSE IF tok.id \notin DOMAIN users THEN "user_not_found"
    ELSE IF users[tok.id].teamId # projects[pid].team_id THEN "not_your_team"
    ELSE IF users[tok.id].role # "admin" /\ projects[pid].created_by # tok.id
         THEN "insufficient_role"
    ELSE "ok"

\* A variant of deleteProjectOutcome whose role check admits admins only.
deleteProjectOutcomeAdminOnly(tok, pid) ==
    IF authCheck(tok) # "" THEN authCheck(tok)
    ELSE IF pid \notin DOMAIN projects THEN "project_not_found"
    ELSE IF tok.id \notin DOMAIN users THEN "user_not_found"
    ELSE IF users[tok.id].teamId # projects[pid].team_id THEN "not_your_team"
    ELSE IF users[tok.id].role # "admin" THEN "insufficient_role"
    ELSE "ok"

\* deleteProject lines 377-420.
deleteProjectOutcome(tok, pid) ==
    IF authCheck(tok) # "" THEN authCheck(tok)
    ELSE IF pid \notin DOMAIN projects THEN "project_not_found"
    ELSE IF tok.id \notin DOMAIN users THEN "user_not_found"
    ELSE IF users[tok.id].teamId # projects[pid].team_id THEN "not_your_team"
    ELSE IF users[tok.id].role # "admin" /\ projects[pid].created_by # tok.id
         THEN "insufficient_role"
    ELSE "ok"

\* A variant of addProjectMemberOutcome without the team check on the added
\* user of lines 511-513.
addProjectMemberOutcomeAnyTeam(tok, pid, userId) ==
    IF userId = Null THEN "userid_required"
    ELSE IF authCheck(tok) # "" THEN authCheck(tok)
    ELSE IF pid \notin DOMAIN projects THEN "project_not_found"
    ELSE IF tok.id \notin DOMAIN users THEN "user_not_found"
    ELSE IF users[tok.id].teamId # projects[pid].team_id THEN "not_your_team"
    ELSE IF users[tok.id].role # "admin" /\ projects[pid].created_by # tok.id
         THEN "insufficient_role"
    ELSE IF userId \notin DOMAIN users THEN "user_to_add_not_found"
    ELSE IF memberRows(pid, userId) # {} THEN "already_member"
    ELSE "ok"

\* addProjectMember lines 450-525.
addProjectMemberOutcome(tok, pid, userId) ==
    IF userId = Null THEN "userid_required"
    ELSE IF authCheck(tok) # "" THEN authCheck(tok)
    ELSE IF pid \notin DOMAIN projects THEN "project_not_found"
    ELSE IF tok.id \notin DOMAIN users THEN "user_not_found"
    ELSE IF users[tok.id].teamId # projects[pid].team_id THEN "not_your_team"
    ELSE IF users[tok.id].role # "admin" /\ projects[pid].created_by # tok.id
         THEN "insufficient_role"
    ELSE IF userId \notin DOMAIN users THEN "user_to_add_not_found"
    ELSE IF users[userId].teamId # projects[pid].team_id THEN "cross_team"
    ELSE IF memberRows(pid, userId) # {} THEN "already_member"
    ELSE "ok"

\* A variant of removeProjectMemberOutcome without the creator check of
\* lines 616-619.
removeProjectMemberOutcomeNoCreatorCheck(tok, pid, userId) ==
    IF authCheck(tok) # "" THEN authCheck(tok)
    ELSE IF pid \notin DOMAIN projects THEN "project_not_found"
    ELSE IF tok.id \notin DOMAIN users THEN "user_not_found"
    ELSE IF users[tok.id].teamId # projects[pid].team_id THEN "not_your_team"
    ELSE IF users[tok.id].role # "admin" /\ projects[pid].created_by # tok.id
         THEN "insufficient_role"
    ELSE IF memberRows(pid, userId) = {} THEN "not_a_member"
    ELSE "ok"

\* removeProjectMember lines 571-631.
removeProjectMemberOutcome(tok, pid, userId) ==
    IF authCheck(tok) # "" THEN authCheck(tok)
    ELSE IF pid \notin DOMAIN projects THEN "project_not_found"
    ELSE IF tok.id \notin DOMAIN users THEN "user_not_found"
    ELSE IF users[tok.id].teamId # projects[pid].team_id THEN "not_your_team"
    ELSE IF users[tok.id].role # "admin" /\ projects[pid].created_by # tok.id
         THEN "insufficient_role"
    ELSE IF userId = projects[pid].created_by THEN "cannot_remove_creator"
    ELSE IF memberRows(pid, userId) = {} THEN "not_a_member"
    ELSE "ok"

\* ----------------------------------------------------------- updateProject
\* Lines 325-338: the fields the update writes.
updatedProject(p, body) ==
    [p EXCEPT !.name = IF ~falsy(body.name) THEN body.name ELSE @,
              !.description = IF body.description # Undefined
                              THEN body.description ELSE @,
              !.status = IF ~falsy(body.status) THEN body.status ELSE @]

\* updateProject whose update lacks the filter .eq('id', projectId) of line
\* 335: every row is written.
updateProjectEveryRow(tok, pid, body) ==
    /\ LET out == updateProjectOutcome(tok, pid, body)
       IN  /\ projects' = IF out = "ok"
                          THEN [p \in DOMAIN projects |->
                                  updatedProject(projects[p], body)]
                          ELSE projects
           /\ last' = Resp("updateProject", statusOf(out), out, actorOf(tok),
                           pid)
    /\ UNCHANGED <<users, teams, members, invitations, jwts, nextUid, nextVTok,
                   nextPid, nextInv, creating, signing, inviting, consumed, adding,
                   resending>>

updateProject(tok, pid, body) ==
    /\ LET out == updateProjectOutcome(tok, pid, body)
       IN  /\ projects' = IF out = "ok"
                          THEN [projects EXCEPT
                                  ![pid] = updatedProject(@, body)]
                          ELSE projects
           /\ last' = Resp("updateProject", statusOf(out), out, actorOf(tok),
                           pid)
    /\ UNCHANGED <<users, teams, members, invitations, jwts, nextUid, nextVTok,
                   nextPid, nextInv, creating, signing, inviting, consumed, adding,
                   resending>>

\* ----------------------------------------------------------- deleteProject
\* Without the rows of domain d.
dropRows(f, d) == [k \in DOMAIN f \ d |-> f[k]]

\* A variant of deleteProject whose delete does not reach project_members.
deleteProjectNoCascade(tok, pid) ==
    /\ LET out == deleteProjectOutcome(tok, pid)
       IN  /\ projects' = IF out = "ok" THEN dropRows(projects, {pid})
                          ELSE projects
           /\ last' = Resp("deleteProject", statusOf(out), out, actorOf(tok),
                           pid)
    /\ UNCHANGED <<users, teams, members, invitations, jwts, nextUid, nextVTok,
                   nextPid, nextInv, creating, signing, inviting, consumed, adding,
                   resending>>

\* Lines 422-436, with project_members' ON DELETE CASCADE.
deleteProject(tok, pid) ==
    /\ LET out == deleteProjectOutcome(tok, pid)
       IN  /\ IF out = "ok"
              THEN /\ projects' = dropRows(projects, {pid})
                   /\ members' = {m \in members : m.project_id # pid}
              ELSE UNCHANGED <<projects, members>>
           /\ last' = Resp("deleteProject", statusOf(out), out, actorOf(tok),
                           pid)
    /\ UNCHANGED <<users, teams, invitations, jwts, nextUid, nextVTok, nextPid,
                   nextInv, creating, signing, inviting, consumed, adding,
                   resending>>

\* -------------------------------------------------------- addProjectMember
addProjectMember(tok, pid, userId, role) ==
    /\ LET out == addProjectMemberOutcome(tok, pid, userId)
       IN  /\ members' = IF out = "ok"
                         THEN members \cup {[project_id |-> pid,
                                             user_id |-> userId,
                                             role |-> role]}
                         ELSE members
           /\ last' = Resp("addProjectMember",
                           IF out = "ok" THEN 201 ELSE statusOf(out), out,
                           actorOf(tok), pid)
    /\ UNCHANGED <<users, teams, projects, invitations, jwts, nextUid,
                   nextVTok, nextPid, nextInv, creating, signing, inviting,
                   consumed, adding,
                   resending>>

\* ----------------------------------------------------- removeProjectMember
removeProjectMember(tok, pid, userId) ==
    /\ LET out == removeProjectMemberOutcome(tok, pid, userId)
       IN  /\ members' = IF out = "ok"
                         THEN members \ memberRows(pid, userId)
                         ELSE members
           /\ last' = Resp("removeProjectMember", statusOf(out), out,
                           actorOf(tok), pid)
    /\ UNCHANGED <<users, teams, projects, invitations, jwts, nextUid,
                   nextVTok, nextPid, nextInv, creating, signing, inviting,
                   consumed, adding,
                   resending>>

\* --------------------------------------- addProjectMember, step by step
\* The existence check (lines 515-524) and the insert (lines 526-536) are two
\* awaited store calls; other requests run between them.
addProjectMemberCheck(tok, pid, userId, role) ==
    /\ LET out == addProjectMemberOutcome(tok, pid, userId)
       IN  IF out = "ok"
           THEN /\ adding' = adding \cup
                      {[actor |-> tok.id, project_id |-> pid,
                        user_id |-> userId, role |-> role]}
                /\ last' = Resp("addProjectMember", 0, "checked", tok.id, pid)
           ELSE /\ adding' = adding
                /\ last' = Resp("addProjectMember", statusOf(out), out,
                                actorOf(tok), pid)
    /\ UNCHANGED <<users, teams, projects, members, invitations, jwts,
                   nextUid, nextVTok, nextPid, nextInv, creating, signing,
                   inviting, consumed,
                   resending>>

\* The insert, refused by UNIQUE(project_id, user_id) and the foreign keys
\* (migration 20250403135509, lines 35-42), and the response.
addProjectMemberInsert(a) ==
    /\ a \in adding
    /\ adding' = adding \ {a}
    /\ IF memberInsertOk(a.project_id, a.user_id)
       THEN /\ members' = members \cup {[project_id |-> a.project_id,
                                         user_id |-> a.user_id,
                                         role |-> a.role]}
            /\ last' = Resp("addProjectMember", 201, "ok", a.actor,
                            a.project_id)
       ELSE /\ members' = members
            /\ last' = Resp("addProjectMember", 500, "error_adding", a.actor,
                            a.project_id)
    /\ UNCHANGED <<users, teams, projects, invitations, jwts, nextUid,
                   nextVTok, nextPid, nextInv, creating, signing, inviting,
                   consumed,
                   resending>>

\* ------------------------------------------------------------ read handlers
\* A variant of getProjectsOutcome without the team check of lines 38-41.
getProjectsOutcomeAnyTeam(tok, teamId) ==
    IF authCheck(tok) # "" THEN authCheck(tok)
    ELSE IF tok.id \notin DOMAIN users THEN "user_not_found"
    ELSE "ok"

\* getProjects lines 11-41: teamId is the route parameter, Current or an id.
getProjectsOutcome(tok, teamId) ==
    IF authCheck(tok) # "" THEN authCheck(tok)
    ELSE IF tok.id \notin DOMAIN users THEN "user_not_found"
    ELSE IF teamId # Current /\ users[tok.id].teamId # teamId
         THEN "not_your_team"
    ELSE "ok"

getProjects(tok, teamId) ==
    /\ LET out == getProjectsOutcome(tok, teamId)
       IN  last' = Resp("getProjects", statusOf(out), out, actorOf(tok), teamId)
    /\ UNCHANGED <<users, teams, projects, members, invitations, jwts, nextUid,
                   nextVTok, nextPid, nextInv, creating, signing, inviting,
                   consumed, adding,
                   resending>>

\* getProjectById lines 169-217.
getProjectByIdOutcome(tok, pid) ==
    IF authCheck(tok) # "" THEN authCheck(tok)
    ELSE IF pid \notin DOMAIN projects THEN "project_not_found"
    ELSE IF tok.id \notin DOMAIN users
            \/ users[tok.id].teamId # projects[pid].team_id
         THEN "not_your_team"
    ELSE "ok"

getProjectById(tok, pid) ==
    /\ LET out == getProjectByIdOutcome(tok, pid)
       IN  last' = Resp("getProjectById", statusOf(out), out, actorOf(tok),
                        pid)
    /\ UNCHANGED <<users, teams, projects, members, invitations, jwts, nextUid,
                   nextVTok, nextPid, nextInv, creating, signing, inviting,
                   consumed, adding,
                   resending>>

\* getAvailableTeamMembers lines 662-700.
getAvailableTeamMembersOutcome(tok, pid) ==
    IF authCheck(tok) # "" THEN authCheck(tok)
    ELSE IF pid \notin DOMAIN projects THEN "project_not_found"
    ELSE IF tok.id \notin DOMAIN users THEN "user_not_found"
    ELSE IF users[tok.id].teamId # projects[pid].team_id THEN "not_your_team"
    ELSE "ok"

getAvailableTeamMembers(tok, pid) ==
    /\ LET out == getAvailableTeamMembersOutcome(tok, pid)
       IN  last' = Resp("getAvailableTeamMembers", statusOf(out), out,
                        actorOf(tok), pid)
    /\ UNCHANGED <<users, teams, projects, members, invitations, jwts, nextUid,
                   nextVTok, nextPid, nextInv, creating, signing, inviting,
                   consumed, adding,
                   resending>>

\* getTeamMembers lines 452-555; team.name of a missing team row throws.
getTeamMembersOutcome(tok, teamId) ==
    IF authCheck(tok) # "" THEN authCheck(tok)
    ELSE IF tok.id \notin DOMAIN users THEN "user_not_found"
    ELSE IF teamId # Current /\ users[tok.id].teamId # teamId
         THEN "not_your_team"
    ELSE IF users[tok.id].teamId \notin DOMAIN teams THEN "server_error"
    ELSE "ok"

getTeamMembers(tok, teamId) ==
    /\ LET out == getTeamMembersOutcome(tok, teamId)
       IN  last' = Resp("getTeamMembers", statusOf(out), out, actorOf(tok),
                        teamId)
    /\ UNCHANGED <<users, teams, projects, members, invitations, jwts, nextUid,
                   nextVTok, nextPid, nextInv, creating, signing, inviting,
                   consumed, adding,
                   resending>>

\* ------------------------------------------------- rows the reads return
\* const targetTeamId = teamId === 'current' ? currentUser.team_id : teamId
targetTeamId(tok, teamId) ==
    IF teamId = Current THEN users[tok.id].teamId ELSE teamId

\* getProjects lines 44-57: the projects with .eq('team_id', targetTeamId).
getProjectsRows(tok, teamId) ==
    {p \in DOMAIN projects : projects[p].team_id = targetTeamId(tok, teamId)}

\* getProjectById lines 218-233: the users joined to the project's member
\* rows.
getProjectByIdMembers(pid) ==
    {m.user_id : m \in {x \in members : x.project_id = pid}}

\* getTeamMembers lines 486-497 and 511-515: the users and the invitations
\* with .eq('team_id', targetTeamId).
getTeamMembersRows(tok, teamId) ==
    {u \in DOMAIN users : users[u].teamId = targetTeamId(tok, teamId)}
getTeamMembersInvitations(tok, teamId) ==
    {i \in DOMAIN invitations :
        invitations[i].team_id = targetTeamId(tok, teamId)}

\* getAvailableTeamMembers lines 702-716: the users of the project's team
\* that have no member row of the project.
getAvailableTeamMembersRows(pid) ==
    {u \in DOMAIN users : /\ users[u].teamId = projects[pid].team_id
                          /\ memberRows(pid, u) = {}}

\* -------------------------------------------------------- updateLastActive
\* Lines 568-597.  The update matches no row when the user is gone, and
\* reports no error.  No handler reads last_active: the column is not kept.
updateLastActiveOutcome(tok, userId) ==
    IF authCheck(tok) # "" THEN authCheck(tok)
    ELSE IF tok.id # userId THEN "not_yourself"
    ELSE "ok"

updateLastActive(tok, userId) ==
    /\ LET out == updateLastActiveOutcome(tok, userId)
       IN  last' = Resp("updateLastActive", statusOf(out), out, actorOf(tok),
                        userId)
    /\ UNCHANGED <<users, teams, projects, members, invitations, jwts, nextUid,
                   nextVTok, nextPid, nextInv, creating, signing, inviting,
                   consumed, adding,
                   resending>>

\* -------------------------------------------------------- cancelInvitation
\* A variant of cancelInvitationOutcome without the role check of lines
\* 634-637.
cancelInvitationOutcomeAnyRole(tok, inv) ==
    IF authCheck(tok) # "" THEN authCheck(tok)
    ELSE IF tok.id \notin DOMAIN users THEN "user_not_found"
    ELSE IF inv \notin DOMAIN invitations THEN "invitation_not_found"
    ELSE IF invitations[inv].team_id # users[tok.id].teamId
         THEN "not_your_invitation"
    ELSE "ok"

\* A variant of cancelInvitationOutcome without the team check of lines
\* 650-653.
cancelInvitationOutcomeAnyTeam(tok, inv) ==
    IF authCheck(tok) # "" THEN authCheck(tok)
    ELSE IF tok.id \notin DOMAIN users THEN "user_not_found"
    ELSE IF users[tok.id].role # "admin" THEN "only_admins"
    ELSE IF inv \notin DOMAIN invitations THEN "invitation_not_found"
    ELSE "ok"

\* Lines 610-653.
cancelInvitationOutcome(tok, inv) ==
    IF authCheck(tok) # "" THEN authCheck(tok)
    ELSE IF tok.id \notin DOMAIN users THEN "user_not_found"
    ELSE IF users[tok.id].role # "admin" THEN "only_admins"
    ELSE IF inv \notin DOMAIN invitations THEN "invitation_not_found"
    ELSE IF invitations[inv].team_id # users[tok.id].teamId
         THEN "not_your_invitation"
    ELSE "ok"

\* Lines 655-675: the row is deleted.
cancelInvitation(tok, inv) ==
    /\ LET out == cancelInvitationOutcome(tok, inv)
       IN  /\ invitations' = IF out = "ok" THEN dropRows(invitations, {inv})
                             ELSE invitations
           /\ last' = Resp("cancelInvitation", statusOf(out), out,
                           actorOf(tok), inv)
    /\ UNCHANGED <<users, teams, projects, members, jwts, nextUid, nextVTok,
                   nextPid, nextInv, creating, signing, inviting, consumed, adding,
                   resending>>

\* --------------------------------------------------------- sendInviteEmail
\* The handler server.js routes at /api/auth/send-invite: it records a
\* pending invitation carrying the team's invite code, for an admin.
sendInviteEmailOutcome(tok) ==
    IF authCheck(tok) # "" THEN authCheck(tok)
    ELSE IF tok.id \notin DOMAIN users THEN "user_not_found"
    ELSE IF users[tok.id].role # "admin" THEN "only_admins"
    ELSE IF users[tok.id].teamId \notin DOMAIN teams THEN "team_not_found"
    ELSE "ok"

sendInviteEmail(tok, email) ==
    /\ LET out == sendInviteEmailOutcome(tok)
       IN  /\ IF out = "ok"
              THEN /\ invitations' = nextInv :>
                        [team_id |-> users[tok.id].teamId, email |-> email,
                         invite_code |-> teams[users[tok.id].teamId].inviteCode,
                         invited_by |-> tok.id, status |-> "pending"]
                        @@ invitations
                   /\ nextInv' = nextInv + 1
              ELSE UNCHANGED <<invitations, nextInv>>
           /\ last' = Resp("sendInviteEmail", statusOf(out), out, actorOf(tok),
                           nextInv)
    /\ UNCHANGED <<users, teams, projects, members, jwts, nextUid, nextVTok,
                   nextPid, creating, signing, inviting, consumed, adding,
                   resending>>

\* ------------------------------------------------------- the store's rules
\* DELETE FROM users WHERE id = u, under the foreign keys of the migrations:
\* the user's team goes with its admin, a team's projects, their members and
\* its editors go with the team and its users' team_id is set to NULL; the
\* references without ON DELETE (projects.created_by, team_invitations)
\* refuse the delete.
teamsOf(u) == {t \in DOMAIN teams : teams[t].adminId = u}
projectsOfTeams(ts) == {p \in DOMAIN projects : projects[p].team_id \in ts}

deleteUserAllowed(u) ==
    /\ u \in DOMAIN users
    /\ \A p \in DOMAIN projects \ projectsOfTeams(teamsOf(u)) :
          projects[p].created_by # u
    /\ \A i \in DOMAIN invitations :
          invitations[i].team_id \notin teamsOf(u)
              /\ invitations[i].invited_by # u

deleteUser(u) ==
    /\ deleteUserAllowed(u)
    /\ LET ts == teamsOf(u)
           ps == projectsOfTeams(ts)
       IN  /\ users' = [v \in DOMAIN users \ {u} |->
                  IF users[v].teamId \in ts
                  THEN [users[v] EXCEPT !.teamId = Null] ELSE users[v]]
           /\ teams' = [t \in DOMAIN teams \ ts |->
                  [teams[t] EXCEPT !.editors = @ \ {u}]]
           /\ projects' = dropRows(projects, ps)
           /\ members' = {m \in members :
                             m.project_id \notin ps /\ m.user_id # u}
    /\ last' = Resp("deleteUser", 0, "", Null, u)
    /\ UNCHANGED <<invitations, jwts, nextUid, nextVTok, nextPid, nextInv,
                   creating, signing, inviting, consumed, adding,
                   resending>>

\* A user leaves one team for another (a team switch): users.team_id and
\* the rosters follow.
switchTeam(u, t) ==
    /\ u \in DOMAIN users /\ t \in DOMAIN teams
    /\ users[u].role = "editor" /\ users[u].teamId # t
    /\ users' = [users EXCEPT ![u].teamId = t]
    /\ teams' = [x \in DOMAIN teams |->
                    [teams[x] EXCEPT !.editors =
                        IF x = t THEN @ \cup {u} ELSE @ \ {u}]]
    /\ last' = Resp("switchTeam", 0, "", Null, u)
    /\ UNCHANGED <<projects, members, invitations, jwts, nextUid, nextVTok,
                   nextPid, nextInv, creating, signing, inviting, consumed, adding,
                   resending>>

\* ------------------------------------------------------------------- clock
\* An expiry d days later.
elapse(e, d) == IF e = Null THEN Null ELSE IF e > d THEN e - d ELSE now

\* d days pass.
Tick(d) ==
    /\ \E e \in {users[u].verificationTokenExpiry : u \in DOMAIN users}
                  \cup {t.exp : t \in jwts} : e > now
    /\ users' = [u \in DOMAIN users |->
                    [users[u] EXCEPT !.verificationTokenExpiry = elapse(@, d)]]
    /\ jwts' = {[t EXCEPT !.exp = elapse(@, d)] : t \in jwts}
    /\ last' = Resp("Tick", 0, "", Null, d)
    /\ UNCHANGED <<teams, projects, members, invitations, nextUid, nextVTok,
                   nextPid, nextInv, creating, signing, inviting, consumed, adding,
                   resending>>

\* -------------------------------------------------------------------- spec
\* A fresh email or username is any one not in use: one stands for all.
emailInputs ==
    {users[u].email : u \in DOMAIN users}
        \cup (IF \E e \in Emails : findByEmail(e) = {}
              THEN {CHOOSE e \in Emails : findByEmail(e) = {}} ELSE {})
usernameInputs ==
    {users[u].username : u \in DOMAIN users}
        \cup (IF \E n \in Usernames : findByUsername(n) = {}
              THEN {CHOOSE n \in Usernames : findByUsername(n) = {}} ELSE {})
codeInputs == {Null, BadCode} \cup {teams[t].inviteCode : t \in DOMAIN teams}

TeamParams == {Current}
\* Request bodies of updateProject: no field, and every field.
UpdateBodies ==
    {[name |-> Undefined, description |-> Undefined, status |-> Undefined],
     [name |-> "renamed", description |-> "", status |-> "archived"]}
ProjectIds == 1..MaxProjects
MemberRoles == {"member"}

\* The sign-up, verification and login requests.
AuthNext ==
    \/ /\ nextUid <= MaxUsers /\ nextVTok <= MaxVTokens
       /\ \E e \in emailInputs, n \in usernameInputs, c \in codeInputs,
             sent \in BOOLEAN : signup(e, n, "pw", c, sent)
    \/ \E token \in 1..MaxVTokens : verifyEmail(token)
    \/ \E e \in emailInputs, p \in Passwords :
          login(e, p) /\ Cardinality(jwts') <= MaxTokens
    \/ \E u \in Uids : generateInvite(u)
    \/ /\ nextVTok <= MaxVTokens
       /\ \E e \in emailInputs, sent \in BOOLEAN : resendVerification(e, sent)
    \/ Tick(TokenTTL)

\* The project, membership and invitation requests, and the store's deletes.
ProjectNext ==
    \/ /\ nextPid <= MaxProjects
       /\ \E tok \in Auths, name \in {Undefined, "n"} : createProject(tok, name)
    \/ \E c \in creating : createProjectOwner(c)
    \/ \E tok \in Auths, pid \in ProjectIds, b \in UpdateBodies :
          updateProject(tok, pid, b)
    \/ \E tok \in Auths, pid \in ProjectIds : deleteProject(tok, pid)
    \/ \E tok \in Auths, pid \in ProjectIds, u \in Uids \cup {Null},
          r \in MemberRoles : addProjectMember(tok, pid, u, r)
    \/ \E tok \in Auths, pid \in ProjectIds, u \in Uids :
          removeProjectMember(tok, pid, u)
    \/ \E tok \in Auths, t \in TeamParams \cup Uids : getProjects(tok, t)
    \/ \E tok \in Auths, pid \in ProjectIds : getProjectById(tok, pid)
    \/ \E tok \in Auths, pid \in ProjectIds :
          getAvailableTeamMembers(tok, pid)
    \/ \E tok \in Auths, t \in TeamParams \cup Uids : getTeamMembers(tok, t)
    \/ \E tok \in Auths, u \in Uids : updateLastActive(tok, u)
    \/ \E tok \in Auths, i \in 1..MaxInvitations : cancelInvitation(tok, i)
    \/ /\ nextInv <= MaxInvitations
       /\ \E tok \in Auths : sendInviteEmail(tok, MaxUsers)
    \/ \E u \in Uids : deleteUser(u)
    \/ \E u \in Uids, t \in Uids : switchTeam(u, t)

Next == AuthNext \/ ProjectNext

\* Every request of the program, within the bounds.
Spec == Init /\ [][Next]_vars

\* --------------------------------------------------------------- scenarios
\* An email and a username not in use.
freshEmail == CHOOSE e \in Emails : findByEmail(e) = {}
freshUsername == CHOOSE n \in Usernames : findByUsername(n) = {}

\* Users arrive, verify and log in without mishap.
SmoothAuthNext ==
    \/ /\ nextUid <= MaxUsers
       /\ \E c \in codeInputs \ {BadCode} :
             signup(freshEmail, freshUsername, "pw", c, TRUE)
    \/ \E token \in 1..MaxUsers : verifyEmail(token)
    \/ \E e \in emailInputs :
          login(e, "pw") /\ Cardinality(jwts') <= MaxTokens

\* Sign-up, verification and login with every mishap, and the clock.
SpecAuth == Init /\ [][AuthNext]_vars

\* The project and membership writes over such users, with team switches.
ProjectScenarioNext ==
    \/ SmoothAuthNext
    \/ /\ nextPid <= MaxProjects
       /\ \E tok \in Auths, name \in {Undefined, "n"} : createProject(tok, name)
    \/ \E c \in creating : createProjectOwner(c)
    \/ \E tok \in Auths, pid \in ProjectIds, b \in UpdateBodies :
          updateProject(tok, pid, b)
    \/ \E tok \in Auths, pid \in ProjectIds : deleteProject(tok, pid)
    \/ \E tok \in Auths, pid \in ProjectIds, u \in Uids \cup {Null},
          r \in MemberRoles : addProjectMember(tok, pid, u, r)
    \/ \E tok \in Auths, pid \in ProjectIds, u \in Uids :
          removeProjectMember(tok, pid, u)
    \/ \E u \in Uids, t \in Uids : switchTeam(u, t)

SpecProject == Init /\ [][ProjectScenarioNext]_vars

\* The team and invitation requests over such users, and the clock.
TeamScenarioNext ==
    \/ SmoothAuthNext
    \/ \E u \in Uids : generateInvite(u)
    \/ /\ nextInv <= MaxInvitations
       /\ \E tok \in Auths : sendInviteEmail(tok, MaxUsers)
    \/ \E tok \in Auths, i \in 1..MaxInvitations : cancelInvitation(tok, i)
    \/ \E tok \in Auths, t \in TeamParams \cup Uids : getTeamMembers(tok, t)
    \/ \E tok \in Auths, u \in Uids : updateLastActive(tok, u)
    \/ \E tok \in Auths, pid \in ProjectIds : deleteProject(tok, pid)
    \/ Tick(TokenTTL)

SpecTeam == Init /\ [][TeamScenarioNext]_vars

\* Requests whose token outlives its user: the store's user deletes.
StaleScenarioNext ==
    \/ SmoothAuthNext
    \/ /\ nextPid <= MaxProjects
       /\ \E tok \in Auths : createProject(tok, "n")
    \/ \E c \in creating : createProjectOwner(c)
    \/ \E tok \in Auths, pid \in ProjectIds :
          updateProject(tok, pid, [name |-> "renamed", description |-> "",
                                   status |-> "archived"])
    \/ \E tok \in Auths, pid \in ProjectIds : getProjectById(tok, pid)
    \/ \E tok \in Auths : getProjects(tok, Current)
    \/ \E tok \in Auths : updateLastActive(tok, tok.id)
    \/ \E u \in Uids : deleteUser(u)

SpecStale == Init /\ [][StaleScenarioNext]_vars

\* Role values a caller of addProjectMember sends: the default, and one the
\* schema does not name.
RoleInputs == {"member", "lead"}

\* One project gains members of any requested role.
MembersScenarioNext ==
    \/ SmoothAuthNext
    \/ /\ nextPid <= MaxProjects
       /\ \E tok \in jwts : createProject(tok, "n")
    \/ \E c \in creating : createProjectOwner(c)
    \/ \E tok \in jwts, pid \in ProjectIds, u \in Uids, r \in RoleInputs :
          addProjectMember(tok, pid, u, r)
    \/ \E tok \in jwts, pid \in ProjectIds, u \in Uids :
          removeProjectMember(tok, pid, u)

SpecMembers == Init /\ [][MembersScenarioNext]_vars

\* Several projects are created, joined by their team's admin, and deleted.
DeleteScenarioNext ==
    \/ SmoothAuthNext
    \/ /\ nextPid <= MaxMemberProjects
       /\ \E tok \in jwts : createProject(tok, "n")
    \/ \E c \in creating : createProjectOwner(c)
    \/ \E tok \in jwts, pid \in 1..MaxMemberProjects :
          addProjectMember(tok, pid, tok.id, "member")
    \/ \E tok \in jwts, pid \in 1..MaxMemberProjects : deleteProject(tok, pid)

SpecDelete == Init /\ [][DeleteScenarioNext]_vars

\* Sign-ups that overlap: each request's store calls interleave with the
\* others'.
SignupRaceNext ==
    \/ /\ nextUid <= MaxUsers
       /\ \E e \in emailInputs, n \in usernameInputs,
             c \in codeInputs \ {BadCode} : signupBegin(e, n, "pw", c)
    \/ \E s \in signing, sent \in BOOLEAN : signupFinish(s, sent)
    \/ \E token \in 1..MaxUsers : verifyEmail(token)

SpecSignupRace == Init /\ [][SignupRaceNext]_vars

\* generateInvite calls that overlap on a team whose code is not yet set.
InviteRaceNext ==
    \/ /\ nextUid <= MaxUsers
       /\ signupLazy(freshEmail, freshUsername, "pw")
    \/ /\ nextUid <= MaxUsers
       /\ \E c \in codeInputs \ {Null, BadCode} :
             signup(freshEmail, freshUsername, "pw", c, TRUE)
    \/ /\ Cardinality(inviting) < MaxInviteCalls
       /\ \E u \in Uids : generateInviteRead(u)
    \/ \E g \in inviting : generateInviteSave(g)

SpecInviteRace == Init /\ [][InviteRaceNext]_vars

\* Requests whose body lacks a field, among well-formed ones.
MalformedNext ==
    \/ /\ nextUid <= MaxUsers
       /\ \E e \in {freshEmail, Null}, n \in {freshUsername, Null},
             p \in {"pw", Undefined}, c \in codeInputs \ {BadCode} :
             signup(e, n, p, c, TRUE)
    \/ \E token \in 1..MaxUsers : verifyEmail(token)
    \/ \E e \in emailInputs :
          login(e, "pw") /\ Cardinality(jwts') <= MaxTokens
    \/ /\ nextPid <= MaxProjects
       /\ \E tok \in Auths, name \in {Undefined, "n"} : createProject(tok, name)
    \/ \E c \in creating : createProjectOwner(c)
    \/ \E tok \in Auths, pid \in ProjectIds, b \in UpdateBodies :
          updateProject(tok, pid, b)
    \/ \E tok \in Auths, pid \in ProjectIds, u \in Uids \cup {Null} :
          addProjectMember(tok, pid, u, "member")

SpecMalformed == Init /\ [][MalformedNext]_vars

\* The authorization decisions over users whose team or team row is gone.
DecisionNext ==
    \/ SmoothAuthNext
    \/ /\ nextPid <= MaxProjects
       /\ \E tok \in jwts : createProject(tok, "n")
    \/ \E c \in creating : createProjectOwner(c)
    \/ \E tok \in Auths, t \in TeamParams \cup Uids : getTeamMembers(tok, t)
    \/ \E tok \in Auths, t \in TeamParams \cup Uids : getProjects(tok, t)
    \/ \E tok \in Auths, pid \in ProjectIds, u \in Uids :
          removeProjectMember(tok, pid, u)
    \/ \E u \in Uids : deleteUser(u)

SpecDecision == Init /\ [][DecisionNext]_vars

\* Updates among several projects.
UpdateScenarioNext ==
    \/ SmoothAuthNext
    \/ /\ nextPid <= MaxMemberProjects
       /\ \E tok \in jwts : createProject(tok, "n")
    \/ \E c \in creating : createProjectOwner(c)
    \/ \E tok \in jwts, pid \in 1..MaxMemberProjects, b \in UpdateBodies :
          updateProject(tok, pid, b)

SpecUpdate == Init /\ [][UpdateScenarioNext]_vars

\* Member additions by admins that overlap.
AddRaceNext ==
    \/ SmoothAuthNext
    \/ /\ nextPid <= MaxProjects
       /\ \E tok \in jwts : createProject(tok, "n")
    \/ \E c \in creating : createProjectOwner(c)
    \/ /\ Cardinality(adding) < MaxAdding
       /\ \E tok \in jwts, pid \in ProjectIds, u \in DOMAIN users,
             r \in RoleInputs :
             /\ tok.role = "admin"
             /\ addProjectMemberCheck(tok, pid, u, r)
    \/ \E a \in adding : addProjectMemberInsert(a)

SpecAddRace == Init /\ [][AddRaceNext]_vars

\* The reads, over several teams and a project.
ReadScenarioNext ==
    \/ SmoothAuthNext
    \/ /\ nextPid <= MaxProjects
       /\ \E tok \in jwts : createProject(tok, "n")
    \/ \E c \in creating : createProjectOwner(c)
    \/ \E tok \in Auths, t \in TeamParams \cup Uids : getProjects(tok, t)
    \/ \E tok \in Auths, pid \in ProjectIds : getProjectById(tok, pid)
    \/ \E tok \in Auths, t \in TeamParams \cup Uids : getTeamMembers(tok, t)
    \/ \E tok \in Auths, pid \in ProjectIds :
          getAvailableTeamMembers(tok, pid)

SpecRead == Init /\ [][ReadScenarioNext]_vars

\* Verifications and resends that overlap.
ResendRaceNext ==
    \/ /\ nextUid <= MaxUsers
       /\ signup(freshEmail, freshUsername, "pw", Null, TRUE)
    \/ \E token \in 1..MaxVTokens : verifyEmail(token)
    \/ /\ nextVTok <= MaxVTokens
       /\ resending = {}
       /\ \E e \in emailInputs : resendVerificationRead(e)
    \/ \E r \in resending, sent \in BOOLEAN : resendVerificationSave(r, sent)
    \/ Tick(TokenTTL)

SpecResendRace == Init /\ [][ResendRaceNext]_vars

\* ============================================================== properties
\* The handlers that write a project or its members.
ProjectWriteOps ==
    {"updateProject", "deleteProject", "addProjectMember",
     "removeProjectMember"}
\* The rejections of a malformed body, sent before the token is read.
Malformed == {"no_fields", "userid_required"}
\* The creator's owner row of project p.
ownerRow(p) ==
    [project_id |-> p, user_id |-> projects[p].created_by, role |-> "owner"]

\* ---------------------------------------------------------------------- C1
\* A step of one of the four project write handlers whose actor's stored
\* team differs from the project's team.
C1_Step ==
    (/\ last'.op \in ProjectWriteOps
     /\ last'.actor \in DOMAIN users
     /\ last'.arg \in DOMAIN projects
     /\ users[last'.actor].teamId # projects[last'.arg].team_id)
    => /\ last'.status \in {400, 403}
       /\ last'.why \in Malformed \cup {"not_your_team"}
       /\ UNCHANGED <<projects, members>>

\* C1: team scope dominates role.  Whenever the stored team_id of the actor
\* of updateProject, deleteProject, addProjectMember or removeProjectMember
\* differs from the project's team_id, the request is denied (as outside the
\* team, unless its body was already rejected) and no project or
\* project_members row changes, whatever the actor's role.
C1_TeamScopeDominates == [][C1_Step]_vars

\* An admin has just been refused a write on another team's project.
C1_Witness ==
    /\ last.op \in ProjectWriteOps
    /\ last.why = "not_your_team"
    /\ last.actor \in DOMAIN users
    /\ users[last.actor].role = "admin"
    /\ last.arg \in DOMAIN projects

\* ---------------------------------------------------------------------- C2
\* The stored role is admin, or the actor created the project.
roleAllows(u, pid) ==
    users[u].role = "admin" \/ projects[pid].created_by = u

C3_OwnerRowAlways ==
    \A p \in DOMAIN projects : ownerRow(p) \in members

\* ---------------------------------------------------------------------- C4
\* A removeProjectMember step: aimed at the creator it fails, and aimed at
\* anyone it leaves every creator's rows in place.
C4_Step ==
    last'.op = "removeProjectMember"
    => /\ \A tok \in Auths, pid \in DOMAIN projects :
             removeProjectMember(tok, pid, projects[pid].created_by)
             => last'.status >= 400 /\ members' = members
       /\ \A pid \in DOMAIN projects :
             memberRows(pid, projects[pid].created_by) \subseteq members'

\* C4: a removeProjectMember whose target is the project's creator fails and
\* leaves project_members unchanged, whoever asks; so no removeProjectMember
\* step deletes a membership row of a project's creator.
C4_CreatorNeverRemoved == [][C4_Step]_vars

\* The removal of a creator who holds a membership row has just been refused
\* to someone the role check admits.
C4_Witness ==
    /\ last.op = "removeProjectMember"
    /\ last.why = "cannot_remove_creator"
    /\ last.arg \in DOMAIN projects
    /\ ownerRow(last.arg) \in members

\* ---------------------------------------------------------------------- C5
C5_Step ==
    (last'.op = "verifyEmail" /\ last'.arg \in consumed)
    => last'.status = 400 /\ users' = users

\* C5: a verification token is single-use.  Once verifyEmail has succeeded
\* with a token, every later verifyEmail with that token fails and changes no
\* user, whatever happened in between.
C5_TokenSingleUse == [][C5_Step]_vars

\* A token that verified a user has just been submitted again and refused,
\* while that user stays verified.
C5_Witness ==
    /\ last.op = "verifyEmail" /\ last.status = 400
    /\ last.arg \in consumed
    /\ \E u \in DOMAIN users : users[u].emailVerified

\* ---------------------------------------------------------------------- C6
\* C6: after a signup that presented a valid invite code of team T and stored
\* a user B, B's role is editor, B's teamId is T and B is in T's editors.
C6_InvitedSignupJoinsRoster ==
    (/\ last.op = "signup"
     /\ last.arg \in DOMAIN users
     /\ users[last.arg].role = "editor")
    => /\ users[last.arg].teamId \in DOMAIN teams
       /\ last.arg \in teams[users[last.arg].teamId].editors

\* ---------------------------------------------------------------------- C7
\* The stored role of user u is admin.
isAdmin(u) == u \in DOMAIN users /\ users[u].role = "admin"

C7_Step ==
    /\ (last'.op = "generateInvite" /\ ~isAdmin(last'.arg))
       => last'.status = 403 /\ UNCHANGED <<teams, invitations>>
    /\ (last'.op = "cancelInvitation" /\ ~isAdmin(last'.actor))
       => last'.status \in {401, 403, 404}
             /\ UNCHANGED <<teams, invitations>>
    /\ (/\ last'.op = "cancelInvitation"
        /\ last'.actor \in DOMAIN users
        /\ ~isAdmin(last'.actor))
       => last'.status = 403

\* C7: generateInvite and cancelInvitation take effect only for a user whose
\* stored role is admin: for any other they are denied, and neither a team's
\* inviteCode nor a team_invitations row changes.
C7_AdminOnlyInvites == [][C7_Step]_vars

\* An editor has just been refused the cancellation of a pending invitation
\* of their own team.
C7_Witness ==
    /\ last.op = "cancelInvitation" /\ last.why = "only_admins"
    /\ last.arg \in DOMAIN invitations
    /\ invitations[last.arg].team_id = users[last.actor].teamId

\* ---------------------------------------------------------------------- C8
\* The team, invitation and project operations.
GuardedOps ==
    ProjectWriteOps \cup
    {"createProject", "getProjects", "getProjectById",
     "getAvailableTeamMembers", "getTeamMembers", "cancelInvitation",
     "updateLastActive", "generateInvite"}

\* C8: a team, invitation or project operation whose request carries no
\* valid, unexpired signed token is rejected as Unauthenticated (401).
C8_TokenRequired ==
    (last.op \in GuardedOps /\ last.actor = Null) => last.status = 401

\* ---------------------------------------------------------------------- C9
\* C9: createProject files the new project under the team the user store
\* records for its creator at the time of the request.
C9_FiledUnderStoredTeam ==
    (last.op = "createProject" /\ last.why = "inserted")
    => projects[last.arg].team_id = users[last.actor].teamId

\* --------------------------------------------------------------------- C10
\* The operations that authenticate by token.
TokenOps == GuardedOps \ {"generateInvite"}

\* C10: a token-authenticated operation whose token's subject is no longer
\* in the user store fails with NotFound (404).
C10_GoneSubjectNotFound ==
    (/\ last.op \in TokenOps
     /\ last.actor # Null
     /\ last.actor \notin DOMAIN users)
    => last.status = 404

\* --------------------------------------------------------------------- C11
\* An addProjectMember step: aimed at a user of another team it is rejected
\* and inserts nothing, and every row it inserts is of a user of the
\* project's team.
C11_Step ==
    last'.op = "addProjectMember"
    => /\ \A tok \in Auths, pid \in DOMAIN projects, u \in DOMAIN users,
             r \in MemberRoles :
             (/\ users[u].teamId # projects[pid].team_id
              /\ addProjectMember(tok, pid, u, r))
             => last'.status >= 400 /\ members' = members
       /\ \A m \in members' \ members :
             /\ m.project_id = last'.arg
             /\ m.user_id \in DOMAIN users
             /\ users[m.user_id].teamId = projects[m.project_id].team_id

\* C11: addProjectMember for a target user whose team_id differs from the
\* project's team_id is rejected and inserts no row; so every row that
\* addProjectMember inserts is of a user who belongs to the project's team
\* when it is inserted.
C11_NoCrossTeamMember == [][C11_Step]_vars

\* Someone the role check admits has just been refused the addition of a
\* user of another team.
C11_Witness ==
    /\ last.op = "addProjectMember"
    /\ last.why = "cross_team"
    /\ last.status = 400

\* --------------------------------------------------------------------- C12
\* C12: every project_members row has role 'owner' or 'member', whatever
\* role value a caller passes to addProjectMember.
C12_RoleOwnerOrMember ==
    \A m \in members : m.role \in {"owner", "member"}

\* --------------------------------------------------------------------- C13
\* The actor of the step is stored and in the team of the project it names.
inProjectTeam(u, pid) ==
    /\ u \in DOMAIN users
    /\ pid \in DOMAIN projects
    /\ users[u].teamId = projects[pid].team_id

\* A deleteProject step: in the project's team it succeeds exactly for the
\* admin and the creator; a success removes the project and its rows and
\* nothing else, a refusal removes nothing.
C13_Step ==
    last'.op = "deleteProject"
    => /\ inProjectTeam(last'.actor, last'.arg)
          => (last'.status = 200 <=> roleAllows(last'.actor, last'.arg))
       /\ last'.status = 200
          => /\ inProjectTeam(last'.actor, last'.arg)
             /\ projects' = dropRows(projects, {last'.arg})
             /\ members' = {m \in members : m.project_id # last'.arg}
       /\ last'.status # 200
          => /\ last'.status >= 400
             /\ UNCHANGED <<projects, members>>

\* C13: after a successful deleteProject, by the team's admin or the
\* creator, neither the project nor any project_members row of it exists,
\* and the other projects and their rows are unchanged; the same delete by
\* a same-team editor who is not the creator is denied and removes nothing.
C13_DeleteCascades == [][C13_Step]_vars

\* A project with membership rows has just been deleted, and another
\* project keeps its rows.
C13_Witness ==
    /\ last.op = "deleteProject" /\ last.status = 200
    /\ last.arg \notin DOMAIN projects
    /\ \E p \in DOMAIN projects : memberRows(p, projects[p].created_by) # {}
    /\ \A m \in members : m.project_id # last.arg

\* --------------------------------------------------------------------- C14
\* C14: every team has exactly one admin: team.adminId references a stored
\* user whose role is admin and whose teamId is that team's id, and no other
\* user of the team has role admin.
C14_OneAdminPerTeam ==
    \A t \in DOMAIN teams :
        /\ teams[t].adminId \in DOMAIN users
        /\ users[teams[t].adminId].role = "admin"
        /\ users[teams[t].adminId].teamId = t
        /\ \A u \in DOMAIN users :
              (users[u].teamId = t /\ users[u].role = "admin")
              => u = teams[t].adminId

\* --------------------------------------------------------------------- C15
\* C15: an invite code, once set, is stable: no step replaces a team's
\* non-empty inviteCode, and a code that resolves to a team at signup
\* resolves to the same team after every step.
InviteCodes == 1..(2 * MaxUsers)

C15_Step ==
    /\ \A t \in DOMAIN teams :
          teams[t].inviteCode # Null
          => t \in DOMAIN teams' /\ teams'[t].inviteCode = teams[t].inviteCode
    /\ \A c \in InviteCodes :
          findTeamByCode(c) # {}
          => {t \in DOMAIN teams' : teams'[t].inviteCode = c}
             = findTeamByCode(c)

C15_InviteCodeStable == [][C15_Step]_vars

\* generateInvite answered an admin whose team already has an editor who
\* signed up with the code, and the team still has its code.
C15_Witness ==
    /\ last.op = "generateInvite"
    /\ last.status = 200
    /\ last.arg \in DOMAIN users
    /\ users[last.arg].teamId \in DOMAIN teams
    /\ teams[users[last.arg].teamId].editors # {}
    /\ teams[users[last.arg].teamId].inviteCode = users[last.arg].teamId

C17_CodeEmptyAfterSignup ==
    ( /\ last.op = "signup"
      /\ last.status = 201
      /\ last.arg \in DOMAIN teams
      /\ teams[last.arg].adminId = last.arg )
    => teams[last.arg].inviteCode = Null

\* --------------------------------------------------------------------- C18
\* C18: a verification token expires 24 hours after signup or
\* resendVerification issued it; verifyEmail with a token whose expiry is not
\* later than the current time answers 400 and leaves every user's
\* emailVerified, verificationToken and expiry as they were.
holdersOf(token) == {u \in DOMAIN users : users[u].verificationToken = token}

C18_Step ==
    /\ \A u \in DOMAIN users' :
          ( /\ users'[u].verificationToken # Null
            /\ \/ u \notin DOMAIN users
               \/ users'[u].verificationToken # users[u].verificationToken )
          => users'[u].verificationTokenExpiry = now + VerificationTTL
    /\ ( /\ last'.op = "verifyEmail"
         /\ holdersOf(last'.arg) # {}
         /\ \A u \in holdersOf(last'.arg) :
               users[u].verificationTokenExpiry <= now )
       => /\ last'.status = 400
          /\ users' = users

C18_ExpiredTokenRejected == [][C18_Step]_vars

\* verifyEmail has just refused the token an unverified user still holds,
\* whose expiry has passed.
C18_Witness ==
    /\ last.op = "verifyEmail"
    /\ last.status = 400
    /\ \E u \in holdersOf(last.arg) :
          /\ ~users[u].emailVerified
          /\ users[u].verificationTokenExpiry <= now

\* --------------------------------------------------------------------- C19
\* C19: login issues a token only if a user with the given email exists, is
\* verified, and the password matches the stored hash; the token carries that
\* user's stored uid, email, role and teamId and expires 7 days later.  No
\* other request issues a token, and no token's subject is unverified.
C19_Step ==
    /\ \A e \in Emails, p \in Passwords :
          (login(e, p) /\ last'.status = 200)
          => /\ findByEmail(e) = {last'.arg}
             /\ users[last'.arg].emailVerified
             /\ bcryptCompare(p, users[last'.arg].password)
    /\ last'.op = "login"
       => IF last'.status = 200
          THEN /\ last'.arg \in DOMAIN users
               /\ users[last'.arg].emailVerified
               /\ jwts' = jwts \cup
                    {[id |-> last'.arg,
                      email |-> users[last'.arg].email,
                      role |-> users[last'.arg].role,
                      teamId |-> users[last'.arg].teamId,
                      exp |-> now + TokenTTL, sig |-> "good"]}
          ELSE jwts' = jwts
    /\ last'.op \notin {"login", "Tick"} => jwts' = jwts
    /\ \A t \in jwts' :
          t.id \in DOMAIN users' => users'[t.id].emailVerified

C19_LoginIssuesToken == [][C19_Step]_vars

\* login has just issued a 7-day token to a verified user, while another
\* user, never verified, has none.
C19_Witness ==
    /\ last.op = "login"
    /\ last.status = 200
    /\ \E t \in jwts : t.id = last.arg /\ t.exp = now + TokenTTL
    /\ \E u \in DOMAIN users :
          ~users[u].emailVerified /\ \A t \in jwts : t.id # u

\* --------------------------------------------------------------------- C20
\* C20: cancelInvitation by an admin answers 404 when no invitation has the
\* given id and 403 when the invitation's team_id differs from the admin's
\* stored team_id; in both cases the team_invitations rows stay as they were.
C20_Step ==
    ( /\ last'.op = "cancelInvitation"
      /\ isAdmin(last'.actor) )
    => /\ last'.arg \notin DOMAIN invitations
          => /\ last'.status = 404
             /\ last'.why = "invitation_not_found"
             /\ invitations' = invitations
       /\ ( /\ last'.arg \in DOMAIN invitations
            /\ invitations[last'.arg].team_id # users[last'.actor].teamId )
          => /\ last'.status = 403
             /\ last'.why = "not_your_invitation"
             /\ invitations' = invitations

C20_CancelNotFoundOrDenied == [][C20_Step]_vars

\* An admin has just been denied the cancellation of another team's
\* invitation, which is still stored.
C20_Witness ==
    /\ last.op = "cancelInvitation"
    /\ last.status = 403
    /\ isAdmin(last.actor)
    /\ last.arg \in DOMAIN invitations
    /\ invitations[last.arg].team_id # users[last.actor].teamId

\* --------------------------------------------------------------------- C21
\* C21: a successful cancelInvitation leaves the invitation's row in place
\* with the terminal status 'canceled'.
C21_CanceledRowRemains ==
    (last.op = "cancelInvitation" /\ last.status = 200)
    => /\ last.arg \in DOMAIN invitations
       /\ invitations[last.arg].status = "canceled"

\* --------------------------------------------------------------------- C22
\* C22: a failed verification email never fails the request: once signup has
\* saved the user it answers 201 and an invited user is in the team's
\* editors, and once resendVerification has saved the new token it answers
\* 200.
C22_EmailFailureTolerated ==
    /\ (last.op = "signup" /\ last.arg \in DOMAIN users)
       => /\ last.status = 201
          /\ users[last.arg].role = "editor"
             => /\ users[last.arg].teamId \in DOMAIN teams
                /\ last.arg \in teams[users[last.arg].teamId].editors
    /\ (last.op = "resendVerification" /\ last.arg \in DOMAIN users)
       => last.status = 200

\* --------------------------------------------------------------------- C23
\* C23: a request whose body lacks a required field is rejected as Invalid
\* (400) whatever the token and the store, and the store is left as it was:
\* createProject without name, updateProject without any field,
\* addProjectMember without userId, signup without email, username or
\* password.
storeUnchanged == UNCHANGED <<users, teams, projects, members, invitations>>

C23_Step ==
    /\ \A tok \in Auths :
          createProject(tok, Undefined)
          => last'.status = 400 /\ storeUnchanged
    /\ \A tok \in Auths, pid \in ProjectIds :
          updateProject(tok, pid, [name |-> Undefined,
                                   description |-> Undefined,
                                   status |-> Undefined])
          => last'.status = 400 /\ storeUnchanged
    /\ \A tok \in Auths, pid \in ProjectIds :
          addProjectMember(tok, pid, Null, "member")
          => last'.status = 400 /\ storeUnchanged
    /\ \A e \in {freshEmail, Null}, n \in {freshUsername, Null},
          p \in {"pw", Undefined}, c \in codeInputs \ {BadCode} :
          ( /\ signup(e, n, p, c, TRUE)
            /\ (e = Null \/ n = Null \/ p = Undefined) )
          => last'.status = 400 /\ storeUnchanged

C23_MalformedRejectedFirst == [][C23_Step]_vars

\* --------------------------------------------------------------------- C24
\* C24: the team-scope check comes before the role check: an actor whose
\* stored team differs from the team of the project (updateProject,
\* deleteProject, addProjectMember, removeProjectMember) or of the invitation
\* (cancelInvitation) receives the team-scope denial, whatever their role.
C24_Step ==
    /\ ( /\ last'.op \in ProjectWriteOps
         /\ last'.actor \in DOMAIN users
         /\ last'.arg \in DOMAIN projects
         /\ users[last'.actor].teamId # projects[last'.arg].team_id )
       => last'.why \in Malformed \cup {"not_your_team"}
    /\ ( /\ last'.op = "cancelInvitation"
         /\ last'.actor \in DOMAIN users
         /\ last'.arg \in DOMAIN invitations
         /\ invitations[last'.arg].team_id # users[last'.actor].teamId )
       => last'.why = "not_your_invitation"

C24_TeamScopeBeforeRole == [][C24_Step]_vars

\* --------------------------------------------------------------------- C25
\* C25: the authorization decision is total: every request to a guarded
\* handler, whatever the token, the actor's role and team (a null team_id
\* and a missing team row included) and the resource, ends as allowed or as
\* one specific rejection, never in an exception (500); and a request is
\* allowed only to an actor whose team exists.
C25_DecisionTotal ==
    (last.op \in GuardedOps /\ last.status # 0)
    => /\ last.status \in {200, 201, 400, 401, 403, 404}
       /\ last.status \in {200, 201}
          => /\ last.actor \in DOMAIN users
             /\ users[last.actor].teamId \in DOMAIN teams

\* --------------------------------------------------------------------- C26
\* C26: a project's team_id and created_by never change after creation, and
\* updateProject writes only name, description and status of the project it
\* targets: every other project and all project_members rows stay as they
\* were.
C26_Step ==
    /\ \A p \in DOMAIN projects :
          p \in DOMAIN projects'
          => /\ projects'[p].team_id = projects[p].team_id
             /\ projects'[p].created_by = projects[p].created_by
    /\ last'.op = "updateProject"
       => /\ members' = members
          /\ DOMAIN projects' = DOMAIN projects
          /\ \A p \in DOMAIN projects :
                p # last'.arg => projects'[p] = projects[p]

C26_UpdateFrame == [][C26_Step]_vars

\* updateProject has just renamed one of two projects; the other has the
\* name it was created with.
C26_Witness ==
    /\ last.op = "updateProject"
    /\ last.status = 200
    /\ last.arg \in DOMAIN projects
    /\ projects[last.arg].name = "renamed"
    /\ \E p \in DOMAIN projects : p # last.arg /\ projects[p].name = "n"

\* --------------------------------------------------------------------- C27
\* C27: there is never more than one project_members row per (project_id,
\* user_id), also when two additions of the same pair overlap between the
\* existence check and the insert; an addition for a pair that already has a
\* row fails and adds nothing, as 'already a member' when the existence check
\* finds the row.
allowedAdder(tok, pid, u) ==
    /\ authCheck(tok) = ""
    /\ pid \in DOMAIN projects
    /\ tok.id \in DOMAIN users
    /\ users[tok.id].teamId = projects[pid].team_id
    /\ roleAllows(tok.id, pid)
    /\ u \in DOMAIN users
    /\ users[u].teamId = projects[pid].team_id

C27_Step ==
    /\ \A m1 \in members', m2 \in members' :
          (m1.project_id = m2.project_id /\ m1.user_id = m2.user_id)
          => m1 = m2
    /\ last'.op = "addProjectMember"
       => /\ \A tok \in jwts, u \in Uids, r \in RoleInputs :
                ( /\ memberRows(last'.arg, u) # {}
                  /\ addProjectMemberCheck(tok, last'.arg, u, r) )
                => /\ last'.status # 0
                   /\ members' = members /\ adding' = adding
                   /\ allowedAdder(tok, last'.arg, u)
                      => last'.status = 400 /\ last'.why = "already_member"
          /\ \A a \in adding :
                ( /\ memberRows(a.project_id, a.user_id) # {}
                  /\ addProjectMemberInsert(a) )
                => last'.status = 500 /\ members' = members

C27_OneRowPerPair == [][C27_Step]_vars

\* The later of two overlapping additions of one pair has just been refused
\* by the insert; the pair has the row of the earlier one.
C27_Witness ==
    /\ last.op = "addProjectMember"
    /\ last.status = 500
    /\ \E m \in members :
          /\ m.project_id = last.arg
          /\ m.role # "owner"
          /\ Cardinality(memberRows(m.project_id, m.user_id)) = 1

\* --------------------------------------------------------------------- C28
\* C28: read isolation.  What getProjects, getProjectById, getTeamMembers and
\* getAvailableTeamMembers return belongs to the actor's stored team; a
\* request that names another team, or a project of another team, is denied
\* (403); and 'current' stands for the actor's own team.
otherTeam(tok, t) ==
    /\ authCheck(tok) = ""
    /\ tok.id \in DOMAIN users
    /\ t # users[tok.id].teamId

C28_Step ==
    /\ last'.op = "getProjects"
       => \A tok \in Auths, t \in TeamParams \cup Uids :
             getProjects(tok, t)
             => /\ last'.status = 200
                   => /\ \A p \in getProjectsRows(tok, t) :
                            projects[p].team_id = users[tok.id].teamId
                      /\ t = Current
                         => getProjectsRows(tok, t)
                            = getProjectsRows(tok, users[tok.id].teamId)
                /\ (t # Current /\ otherTeam(tok, t)) => last'.status = 403
    /\ last'.op = "getTeamMembers"
       => \A tok \in Auths, t \in TeamParams \cup Uids :
             getTeamMembers(tok, t)
             => /\ last'.status = 200
                   => /\ \A u \in getTeamMembersRows(tok, t) :
                            users[u].teamId = users[tok.id].teamId
                      /\ \A i \in getTeamMembersInvitations(tok, t) :
                            invitations[i].team_id = users[tok.id].teamId
                      /\ t = Current
                         => getTeamMembersRows(tok, t)
                            = getTeamMembersRows(tok, users[tok.id].teamId)
                /\ (t # Current /\ otherTeam(tok, t)) => last'.status = 403
    /\ last'.op = "getProjectById"
       => \A tok \in Auths, pid \in ProjectIds :
             getProjectById(tok, pid)
             => /\ last'.status = 200
                   => /\ projects[pid].team_id = users[tok.id].teamId
                      /\ \A u \in getProjectByIdMembers(pid) :
                            users[u].teamId = users[tok.id].teamId
                /\ ( /\ pid \in DOMAIN projects
                     /\ otherTeam(tok, projects[pid].team_id) )
                   => last'.status = 403
    /\ last'.op = "getAvailableTeamMembers"
       => \A tok \in Auths, pid \in ProjectIds :
             getAvailableTeamMembers(tok, pid)
             => /\ last'.status = 200
                   => \A u \in getAvailableTeamMembersRows(pid) :
                         users[u].teamId = users[tok.id].teamId
                /\ ( /\ pid \in DOMAIN projects
                     /\ otherTeam(tok, projects[pid].team_id) )
                   => last'.status = 403

C28_ReadIsolation == [][C28_Step]_vars

\* getProjects has just refused an actor the projects of another team, which
\* has one.
C28_Witness ==
    /\ last.op = "getProjects"
    /\ last.status = 403
    /\ last.actor \in DOMAIN users
    /\ \E p \in DOMAIN projects :
          /\ projects[p].team_id = last.arg
          /\ users[last.actor].teamId # last.arg

\* --------------------------------------------------------------------- C29
\* C29: in every state, also when verifyEmail and resendVerification overlap
\* for one user, a user whose emailVerified is true has no verificationToken
\* and no expiry.
C29_VerifiedHasNoToken ==
    \A u \in DOMAIN users :
        users[u].emailVerified
        => /\ users[u].verificationToken = Null
           /\ users[u].verificationTokenExpiry = Null

\* --------------------------------------------------------------------- C30
\* C30: a signup that does not end in a stored user leaves no trace: once no
\* signup is in flight, no team has an adminId that references no user, and
\* every roster entry is a stored user of that team.
C30_FailedSignupLeavesNothing ==
    signing = {}
    => \A t \in DOMAIN teams :
          /\ teams[t].adminId \in DOMAIN users
          /\ \A e \in teams[t].editors :
                e \in DOMAIN users /\ users[e].teamId = t

====
